---- MODULE Spec2Model ----
(***************************************************************************)
(* Model of the evaluation-report uploader:                                *)
(*   src/file_main_processing.py  username extractor and upload dispatcher *)
(*   src/canvas_client.py         CanvasInteraction and QuotaManager       *)
(*                                                                         *)
(* File names, recipient identifiers and folder paths are sequences of     *)
(* one-character strings, so that the regular expressions and the split    *)
(* of the source are computed, not assumed.                                *)
(*                                                                         *)
(* The environment is the LMS and the two libraries the code calls:        *)
(*  - requests: a call either raises RequestException (transport failure)  *)
(*    or returns a reply with a status code and a body; response.json() on *)
(*    an unparseable body raises requests' JSONDecodeError, which is a     *)
(*    RequestException;                                                    *)
(*  - canvasapi: every call may raise; user.get_folders lists the user's   *)
(*    root-level folders and folder.get_folders a folder's children, both  *)
(*    in ascending id order; create_folder stores the folder under the     *)
(*    name it is given, with a fresh id; Canvas.get_user(None) raises      *)
(*    TypeError before any request is made.                                *)
(* The local file system works: listdir, makedirs and move do not fail.    *)
(***************************************************************************)
EXTENDS Integers, Sequences, FiniteSets, TLC

(* ------------------------------------------------------------------ *)
(* Bounds of the model                                                 *)
(* ------------------------------------------------------------------ *)
MaxStaged == 3
MaxUserId == 2
MaxPathLen == 3
MaxNameLen == 5
MaxParenStaged == 2

(* Python's None, encoded as an integer outside every id and status code *)
None == 0 - 1

(* ------------------------------------------------------------------ *)
(* Characters                                                          *)
(* ------------------------------------------------------------------ *)
Lower == {"a","b","c","d","e","f","g","h","i","j","k","l","m",
          "n","o","p","q","r","s","t","u","v","w","x","y","z"}
Upper == {"A","B","C","D","E","F","G","H","I","J","K","L","M",
          "N","O","P","Q","R","S","T","U","V","W","X","Y","Z"}
Digit == {"0","1","2","3","4","5","6","7","8","9"}

\* [a-zA-Z0-9()-]
IdChars == Lower \cup Upper \cup Digit \cup {"(", ")", "-"}
\* \w
WordChars == Lower \cup Upper \cup Digit \cup {"_"}

AllIn(s, lo, hi, set) == \A k \in lo..hi : s[k] \in set

SeqMin(S) == CHOOSE x \in S : \A y \in S : x <= y
SeqMax(S) == CHOOSE x \in S : \A y \in S : x >= y

(* ------------------------------------------------------------------ *)
(* Username extractor: the regular expressions of lines 45 and 49      *)
(* ------------------------------------------------------------------ *)
\* _[a-zA-Z0-9()-]+\.\w+$ matched at position u, the identifier ending before d
TailAt(name, u, d) ==
    /\ name[u] = "_"
    /\ u + 1 <= d - 1
    /\ AllIn(name, u + 1, d - 1, IdChars)
    /\ name[d] = "."
    /\ d + 1 <= Len(name)
    /\ AllIn(name, d + 1, Len(name), WordChars)

TailPositions(name) ==
    {u \in 1..Len(name) : \E d \in (u + 2)..Len(name) : TailAt(name, u, d)}

\* re.match(r".*_[a-zA-Z0-9()-]+\.\w+$", source_file)
MatchesPattern(name) == TailPositions(name) # {}

\* re.search(r"_([a-zA-Z0-9()-]+)\.\w+$", source_file).group(1): leftmost match
SearchUsername(name) ==
    LET u == SeqMin(TailPositions(name))
        d == CHOOSE e \in (u + 2)..Len(name) : TailAt(name, u, e)
    IN  SubSeq(name, u + 1, d - 1)

\* the set built by the loop of lines 43-60 over the regular files
ExtractUsernames(files) ==
    {SearchUsername(f) : f \in {g \in files : MatchesPattern(g)}}

\* a directory entry of semester_folder: a regular file or a subdirectory
Entry(name, isfile) == [name |-> name, isfile |-> isfile]

\* a listing that keeps the subdirectories too
AllEntryNames(entries) == {e.name : e \in entries}

\* line 35: [f for f in all_entries if os.path.isfile(os.path.join(semester_folder, f))]
RegularFiles(entries) == {e.name : e \in {x \in entries : x.isfile}}

\* lines 33-62, before list() orders the set
extract_unique_usernames_from_files(entries) ==
    ExtractUsernames(RegularFiles(entries))

(* ------------------------------------------------------------------ *)
(* Dispatcher's file selection: re.search(rf"{user_name}.pdf", file)   *)
(* The identifier is used as a pattern: letters, digits and '-' are    *)
(* literals, '(' and ')' open and close a group.                       *)
(* ------------------------------------------------------------------ *)
RECURSIVE ParenDepthOk(_, _, _)
ParenDepthOk(p, k, depth) ==
    IF k > Len(p) THEN depth = 0
    ELSE IF p[k] = "(" THEN ParenDepthOk(p, k + 1, depth + 1)
    ELSE IF p[k] = ")" THEN depth > 0 /\ ParenDepthOk(p, k + 1, depth - 1)
    ELSE ParenDepthOk(p, k + 1, depth)

\* re.compile succeeds: the groups are balanced (otherwise re.error is raised)
PatternCompiles(user_name) == ParenDepthOk(user_name, 1, 0)

\* the characters the compiled pattern has to match, in order
PatternLiteral(user_name) == SelectSeq(user_name, LAMBDA c : c \notin {"(", ")"})

PdfSuffix == <<"p", "d", "f">>

MatchesAt(pat, file, i) ==
    LET n == Len(pat) IN
    /\ i + n + 3 <= Len(file)
    /\ SubSeq(file, i, i + n - 1) = pat
    \* '.' matches any character but a newline; names hold none
    /\ SubSeq(file, i + n + 1, i + n + 3) = PdfSuffix

\* re.search(rf"{user_name}.pdf", file) is a match
SearchUserPdf(user_name, file) ==
    \E i \in 1..Len(file) : MatchesAt(PatternLiteral(user_name), file, i)

(* ------------------------------------------------------------------ *)
(* HTTP replies                                                        *)
(* ------------------------------------------------------------------ *)
\* 200 <= status_code < 300
Is2xx(code) == 200 <= code /\ code < 300

\* a requests call: it raised RequestException, or returned status and body
Reply(transport, status, body, id) ==
    [transport |-> transport, status |-> status, body |-> body, id |-> id]

TransportError == Reply(TRUE, None, "none", None)

\* the result of a call that may raise: kind is "value", "none" or "raise"
Ret(kind, v) == [kind |-> kind, v |-> v]

(* ------------------------------------------------------------------ *)
(* CanvasInteraction.get_user_id                                       *)
(* ------------------------------------------------------------------ *)
UserIds == 1..MaxUserId

\* shapes of a parsed body; "list_id" carries the id of the first element
LookupBodies == {"unparseable", "empty_list", "dict", "list_no_id", "list_id"}

LookupRepliesFor(okCodes, badCodes) ==
    {TransportError}
    \cup {Reply(FALSE, s, "none", None) : s \in badCodes}
    \cup {Reply(FALSE, s, b, None) : s \in okCodes, b \in LookupBodies \ {"list_id"}}
    \cup {Reply(FALSE, s, "list_id", u) : s \in okCodes, u \in UserIds}

\* the replies a dispatcher run draws from
LookupReplies == LookupRepliesFor({200}, {404, 500})

\* not user_data or not isinstance(user_data, list)
UnexpectedFormat(body) == body \in {"empty_list", "dict"}

\* user_data[0]['id']: KeyError or TypeError when the first element has no id
FirstElementId(reply) ==
    IF reply.body = "list_id" THEN Ret("value", reply.id) ELSE Ret("raise", None)

get_user_id(reply) ==
    IF reply.transport THEN Ret("none", None)
    ELSE IF ~Is2xx(reply.status) THEN Ret("none", None)
    \* response.json() raises JSONDecodeError, a RequestException: caught
    ELSE IF reply.body = "unparseable" THEN Ret("none", None)
    ELSE IF UnexpectedFormat(reply.body) THEN Ret("none", None)
    ELSE FirstElementId(reply)

(* ------------------------------------------------------------------ *)
(* CanvasInteraction.upload_file                                       *)
(* ------------------------------------------------------------------ *)
\* phase 1, the ticket request: the body holds upload_url and upload_params or not
TicketRepliesFor(codes) ==
    {TransportError}
    \cup {Reply(FALSE, s, b, None) :
            s \in codes, b \in {"ticket", "unparseable", "no_upload_url"}}

\* phase 2, the binary transfer
TransferRepliesFor(codes) ==
    {TransportError} \cup {Reply(FALSE, s, "none", None) : s \in codes}

\* the replies a dispatcher run draws from
UploadCodes == {200, 507}
TicketReplies == TicketRepliesFor(UploadCodes)
TransferReplies == TransferRepliesFor(UploadCodes)

\* an upload that goes on to the transfer whatever the ticket reply
TicketNeverRefused(p1) == FALSE

\* lines 127-130: a non-2xx ticket reply ends the upload with its status code
TicketRefused(p1) == ~Is2xx(p1.status)

\* value: the status code returned, or None; calls: the requests made, in order
upload_file(exists, p1, p2) ==
    IF ~exists THEN [value |-> None, calls |-> <<>>]
    ELSE IF p1.transport THEN [value |-> None, calls |-> <<"ticket">>]
    ELSE IF TicketRefused(p1) THEN [value |-> p1.status, calls |-> <<"ticket">>]
    \* response.json() or upload_data['upload_url'] raises: caught at line 147
    ELSE IF p1.body # "ticket" THEN [value |-> None, calls |-> <<"ticket">>]
    ELSE IF p2.transport THEN [value |-> None, calls |-> <<"ticket", "transfer">>]
    ELSE [value |-> p2.status, calls |-> <<"ticket", "transfer">>]

(* ------------------------------------------------------------------ *)
(* QuotaManager.get_remaining_space                                    *)
(* ------------------------------------------------------------------ *)
MB == 1024 * 1024

QuotaReply(transport, status, body, quota, used) ==
    [transport |-> transport, status |-> status, body |-> body,
     quota |-> quota, quota_used |-> used]

QuotaReplies ==
    {QuotaReply(TRUE, None, "none", 0, 0)}
    \cup {QuotaReply(FALSE, 403, "none", 0, 0)}
    \cup {QuotaReply(FALSE, 200, b, 0, 0) : b \in {"unparseable", "missing_key"}}
    \cup {QuotaReply(FALSE, 200, "numbers", MB, u) : u \in {0, 2 * MB}}

\* total_quota_mb - used_storage_mb, on byte counts that are whole megabytes
RemainingMb(reply) == (reply.quota \div MB) - (reply.quota_used \div MB)

get_remaining_space(reply) ==
    \* requests.get is outside every try block of the method
    IF reply.transport THEN Ret("raise", None)
    ELSE IF ~Is2xx(reply.status) THEN Ret("none", None)
    \* only KeyError is caught: a body that does not parse propagates
    ELSE IF reply.body = "unparseable" THEN Ret("raise", None)
    ELSE IF reply.body = "missing_key" THEN Ret("none", None)
    ELSE Ret("value", RemainingMb(reply))

(* ------------------------------------------------------------------ *)
(* LMS folder tree and CanvasInteraction.get_or_create_folder          *)
(* A folder is [id, owner, parent, name]; parent is None at root level *)
(* ------------------------------------------------------------------ *)
Folder(id, owner, parent, name) ==
    [id |-> id, owner |-> owner, parent |-> parent, name |-> name]

\* folder_path.split('/')
RECURSIVE Split(_)
Split(path) ==
    LET slashes == {i \in 1..Len(path) : path[i] = "/"} IN
    IF slashes = {} THEN <<path>>
    ELSE LET i == SeqMin(slashes) IN
         <<SubSeq(path, 1, i - 1)>> \o Split(SubSeq(path, i + 1, Len(path)))

\* the id the LMS gives the next folder it creates
FreshId(tree) == IF tree = {} THEN 1 ELSE SeqMax({f.id : f \in tree}) + 1

\* user.get_folders(as_user_id) / get_folder(current_folder_id).get_folders(...)
FoldersList(tree, user_id, current_folder_id) ==
    IF current_folder_id # None
    THEN {f \in tree : f.parent = current_folder_id}
    ELSE {f \in tree : f.owner = user_id /\ f.parent = None}

\* a search that never recognises an existing folder
FoundFolderNever(folders_list, folder_name) == None

\* next((folder for folder in folders_list if folder.name == folder_name), None)
FoundFolder(folders_list, folder_name) ==
    LET named == {f.id : f \in {g \in folders_list : g.name = folder_name}} IN
    IF named = {} THEN None ELSE SeqMin(named)

\* requests made to list (or to create) below the current folder
CallsPerStep(current_folder_id) == IF current_folder_id # None THEN 2 ELSE 1

\* one iteration of the loop of lines 71-90; failAt is the request that raises
WalkSegment(st, folder_name, user_id, failAt) ==
    IF ~st.ok THEN st
    ELSE
    LET n == CallsPerStep(st.cur)
        found == FoundFolder(FoldersList(st.tree, user_id, st.cur), folder_name)
        newId == FreshId(st.tree)
    IN  IF failAt \in (st.calls + 1)..(st.calls + n)
        THEN [st EXCEPT !.ok = FALSE, !.calls = failAt]
        ELSE IF found # None
        THEN [st EXCEPT !.cur = found, !.calls = @ + n]
        ELSE IF failAt \in (st.calls + n + 1)..(st.calls + 2 * n)
        THEN [st EXCEPT !.ok = FALSE, !.calls = failAt]
        ELSE [cur |-> newId,
              tree |-> st.tree \cup {Folder(newId, user_id, st.cur, folder_name)},
              calls |-> st.calls + 2 * n,
              ok |-> TRUE]

RECURSIVE WalkPath(_, _, _, _, _)
WalkPath(st, segs, k, user_id, failAt) ==
    IF k > Len(segs) THEN st
    ELSE WalkPath(WalkSegment(st, segs[k], user_id, failAt), segs, k + 1, user_id, failAt)

\* a get_user that builds the user lazily and accepts None
GetUserNeverRaises(user_id) == FALSE

\* self.canvas.get_user(user_id): TypeError for None, before any request
GetUserRaises(user_id) == user_id = None

\* the supplied id handed back as it is, with no request
ExistingFolderUnchecked(tree, folder_id, failAt) ==
    [ret |-> Ret("id", folder_id), tree |-> tree, calls |-> 0]

\* line 64: return self.canvas.get_folder(folder_id), one request
ExistingFolder(tree, folder_id, failAt) ==
    IF failAt = 1 \/ ~(\E f \in tree : f.id = folder_id)
    THEN [ret |-> Ret("none", None), tree |-> tree, calls |-> 1]
    ELSE [ret |-> Ret("folder", folder_id), tree |-> tree, calls |-> 1]

\* ret: Ret("id", n), Ret("folder", n) for a Folder object, or Ret("none", None)
get_or_create_folder(tree, user_id, folder_path, folder_id, failAt) ==
    IF folder_id # None /\ folder_id # 0
    THEN ExistingFolder(tree, folder_id, failAt)
    ELSE IF GetUserRaises(user_id)
    THEN [ret |-> Ret("none", None), tree |-> tree, calls |-> 0]
    ELSE IF failAt = 1
    THEN [ret |-> Ret("none", None), tree |-> tree, calls |-> 1]
    ELSE
    LET st == WalkPath([cur |-> None, tree |-> tree, calls |-> 1, ok |-> TRUE],
                       Split(folder_path), 1, user_id, failAt)
    IN  [ret |-> IF st.ok THEN Ret("id", st.cur) ELSE Ret("none", None),
         tree |-> st.tree, calls |-> st.calls]

(* ------------------------------------------------------------------ *)
(* Configuration and inputs                                            *)
(* ------------------------------------------------------------------ *)
\* EVAL_REPORTS_PATH and USER_SEMESTER_FOLDER_PATH, joined by "/" at line 93
EVAL_REPORTS_PATH == <<"e">>
USER_SEMESTER_FOLDER_PATH == <<"s">>
FolderPath == EVAL_REPORTS_PATH \o <<"/">> \o USER_SEMESTER_FOLDER_PATH

\* requests get_or_create_folder can make for a path, plus one
FolderCalls(path) == 1 + 4 * Len(Split(path))

\* names the staging directory may hold
FileUniverse ==
    { <<"r","_","b",".","p","d","f">>,
      <<"s","_","b",".","p","d","f">>,
      <<"r","_","x","b",".","p","d","f">>,
      <<"n","o","t","e","s",".","t","x","t">> }

\* names whose identifiers hold parentheses, beside names they can be taken for
ParenUniverse ==
    { <<"r","_","b",".","p","d","f">>,
      <<"r","_","x","b",".","p","d","f">>,
      <<"r","_","(","b",")",".","p","d","f">>,
      <<"r","_","(","b",".","p","d","f">> }

Perms(S) ==
    {q \in [1..Cardinality(S) -> S] : \A i, j \in 1..Cardinality(S) : q[i] = q[j] => i = j}

(* ------------------------------------------------------------------ *)
(* State                                                               *)
(* ------------------------------------------------------------------ *)
VARIABLES
    staging,        \* names of the regular files in semester_folder
    staged0,        \* the names staged when the run started
    exceeded,       \* <<user_name, basename>>: files under EXCEEDED_STORAGE_DIR_PATH
    folders,        \* the LMS folder tree
    usernames,      \* the list the dispatcher iterates
    idx,            \* position in usernames
    pc,             \* position in the dispatcher's loop body
    user_id, sub_folder_id, user_files, fidx, response_code,
    outcome,        \* "running", "returned", or "caught" (the except of line 139)
    lookupLog,      \* per recipient looked up: [user_name, ret]
    uploadLog,      \* per upload_file call: [user_name, file, code]
    quotaLog,       \* per quota query: [user_name, file, ret]
    lastLookup,     \* <<[reply, ret]>> of the latest direct get_user_id call
    lastUpload,     \* <<[exists, ticket, transfer, value, calls]>>, latest upload_file
    lastQuota,      \* <<[reply, ret]>> of the latest direct get_remaining_space call
    f_phase, f_user, f_path, f_arg, f_base, f_rets, \* two resolveFolder calls in a row
    x_entries,      \* the entries of a directory given to the extractor
    x_usernames,    \* the list the extractor returned
    x_phase         \* "idle", "listed" or "returned"

dispatcherVars ==
    <<staged0, staging, exceeded, usernames, idx, pc, user_id, sub_folder_id, user_files,
      fidx, response_code, outcome, lookupLog, uploadLog, quotaLog>>
clientVars == <<lastLookup, lastUpload, lastQuota>>
folderVars == <<f_phase, f_user, f_path, f_arg, f_base, f_rets>>
extractVars == <<x_entries, x_usernames, x_phase>>
vars == <<dispatcherVars, folders, clientVars, folderVars, extractVars>>

NoExtractRun == x_entries = {} /\ x_usernames = <<>> /\ x_phase = "idle"

NoClientRun == lastLookup = <<>> /\ lastUpload = <<>> /\ lastQuota = <<>>

NoFolderRun ==
    /\ f_phase = 0 /\ f_user = None /\ f_path = <<>> /\ f_arg = None
    /\ f_base = {} /\ f_rets = <<>>

\* process_all_files, lines 154-157: extract the usernames, then dispatch
DispatcherStart(universe, most) ==
    /\ staging \in {S \in SUBSET universe : S # {} /\ Cardinality(S) <= most}
    /\ staged0 = staging
    /\ exceeded = {}
    /\ folders = {}
    /\ usernames \in Perms(ExtractUsernames(staging))
    /\ idx = 1
    /\ pc = IF ExtractUsernames(staging) = {} THEN "done" ELSE "lookup"
    /\ outcome = IF ExtractUsernames(staging) = {} THEN "returned" ELSE "running"
    /\ user_id = None /\ sub_folder_id = None /\ user_files = <<>> /\ fidx = 1
    /\ response_code = None
    /\ lookupLog = <<>> /\ uploadLog = <<>> /\ quotaLog = <<>>
    /\ NoClientRun
    /\ NoFolderRun
    /\ NoExtractRun

Init == DispatcherStart(FileUniverse, MaxStaged)

(* ------------------------------------------------------------------ *)
(* upload_user_files_to_canvas_based_on_quota                          *)
(* ------------------------------------------------------------------ *)
\* the for loop of line 88 moves to the next user_name, or the function returns
NextRecipient ==
    /\ idx' = idx + 1
    /\ pc' = IF idx + 1 > Len(usernames) THEN "done" ELSE "lookup"
    /\ outcome' = IF idx + 1 > Len(usernames) THEN "returned" ELSE "running"

\* an exception reaches the except of line 139: logged, the function returns
Caught ==
    /\ pc' = "done"
    /\ outcome' = "caught"
    /\ idx' = idx

\* line 89
LookupUser ==
    /\ pc = "lookup"
    /\ \E reply \in LookupReplies :
         LET r == get_user_id(reply) IN
         /\ lookupLog' = Append(lookupLog, [user_name |-> usernames[idx], ret |-> r])
         /\ IF r.kind = "raise"
            THEN Caught /\ UNCHANGED user_id
            ELSE /\ user_id' = r.v
                 /\ pc' = "folder"
                 /\ UNCHANGED <<idx, outcome>>
    /\ UNCHANGED <<staging, exceeded, folders, usernames, sub_folder_id, user_files,
                   fidx, response_code, uploadLog, quotaLog, staged0,
                   clientVars, folderVars, extractVars>>

\* line 95: if not sub_folder_id
NoSubFolder(ret) == ret.kind = "none" \/ ret.v = 0

\* lines 91-97
ResolveFolder ==
    /\ pc = "folder"
    /\ \E failAt \in 0..FolderCalls(FolderPath) :
         LET r == get_or_create_folder(folders, user_id, FolderPath, None, failAt) IN
         /\ folders' = r.tree
         /\ IF NoSubFolder(r.ret)
            THEN NextRecipient /\ UNCHANGED sub_folder_id
            ELSE /\ sub_folder_id' = r.ret.v
                 /\ pc' = "list"
                 /\ UNCHANGED <<idx, outcome>>
    /\ UNCHANGED <<staging, exceeded, usernames, user_id, user_files, fidx,
                   response_code, lookupLog, uploadLog, quotaLog, staged0,
                   clientVars, folderVars, extractVars>>

\* line 104: the entries of semester_folder the user's pattern finds
UserFiles(user_name, listing) == {f \in listing : SearchUserPdf(user_name, f)}

\* lines 101-105; os.listdir returns the entries in arbitrary order
ListFiles ==
    /\ pc = "list"
    /\ IF ~PatternCompiles(usernames[idx])
       THEN Caught /\ UNCHANGED <<user_files, fidx>>
       ELSE \E order \in Perms(UserFiles(usernames[idx], staging)) :
              /\ user_files' = order
              /\ fidx' = 1
              /\ IF order = <<>>
                 THEN NextRecipient
                 ELSE pc' = "upload" /\ UNCHANGED <<idx, outcome>>
    /\ UNCHANGED <<staging, exceeded, folders, usernames, user_id, sub_folder_id,
                   response_code, lookupLog, uploadLog, quotaLog, staged0,
                   clientVars, folderVars, extractVars>>

\* line 117
UploadStep ==
    /\ pc = "upload"
    /\ \E p1 \in TicketReplies, p2 \in TransferReplies :
         LET file == user_files[fidx]
             r == upload_file(file \in staging, p1, p2)
         IN  /\ response_code' = r.value
             /\ uploadLog' = Append(uploadLog,
                    [user_name |-> usernames[idx], file |-> file, code |-> r.value])
    /\ pc' = "check"
    /\ UNCHANGED <<staging, exceeded, folders, usernames, idx, user_id, sub_folder_id,
                   user_files, fidx, outcome, lookupLog, quotaLog, staged0,
                   clientVars, folderVars, extractVars>>

\* the for loop of line 107 moves to the next file, or to the next recipient
NextFile ==
    IF fidx < Len(user_files)
    THEN fidx' = fidx + 1 /\ pc' = "upload" /\ UNCHANGED <<idx, outcome>>
    ELSE NextRecipient /\ UNCHANGED fidx

\* line 120 with response_code None: TypeError, caught at line 139
CompareRaises ==
    /\ pc = "check"
    /\ response_code = None
    /\ Caught
    /\ UNCHANGED <<staging, exceeded, folders, usernames, user_id, sub_folder_id,
                   user_files, fidx, response_code, lookupLog, uploadLog, quotaLog,
                   staged0,
                   clientVars, folderVars, extractVars>>

\* line 120: not (200 <= response_code < 300)
UploadFailedCode(code) == ~Is2xx(code)

\* line 120 false: nothing is done with the file
UploadAccepted ==
    /\ pc = "check"
    /\ response_code # None
    /\ ~UploadFailedCode(response_code)
    /\ NextFile
    /\ UNCHANGED <<staging, exceeded, folders, usernames, user_id, sub_folder_id,
                   user_files, response_code, lookupLog, uploadLog, quotaLog,
                   staged0,
                   clientVars, folderVars, extractVars>>

\* lines 123-137: the move is inside the try block of the quota query
MoveReached(quota_ret) == quota_ret.kind # "raise"

\* lines 121-137
UploadFailed ==
    /\ pc = "check"
    /\ response_code # None
    /\ UploadFailedCode(response_code)
    /\ \E q \in QuotaReplies :
         LET r == get_remaining_space(q)
             file == user_files[fidx]
         IN  /\ quotaLog' = Append(quotaLog,
                    [user_name |-> usernames[idx], file |-> file, ret |-> r])
             /\ IF MoveReached(r)
                THEN /\ staging' = staging \ {file}
                     /\ exceeded' = exceeded \cup {<<usernames[idx], file>>}
                ELSE UNCHANGED <<staging, exceeded>>
    /\ NextFile
    /\ UNCHANGED <<folders, usernames, user_id, sub_folder_id, user_files,
                   response_code, lookupLog, uploadLog, staged0,
                   clientVars, folderVars, extractVars>>

Next ==
    \/ LookupUser
    \/ ResolveFolder
    \/ ListFiles
    \/ UploadStep
    \/ CompareRaises
    \/ UploadAccepted
    \/ UploadFailed

Spec == Init /\ [][Next]_vars

\* the same run on a staging directory whose names hold parentheses
InitParens == DispatcherStart(ParenUniverse, MaxParenStaged)

SpecParens == InitParens /\ [][Next]_vars

\* the dispatcher at rest, while the client's methods are called directly
NoDispatcherRun ==
    /\ staged0 = {}
    /\ staging = {} /\ exceeded = {} /\ usernames = <<>> /\ idx = 1
    /\ pc = "done" /\ outcome = "returned"
    /\ user_id = None /\ sub_folder_id = None /\ user_files = <<>> /\ fidx = 1
    /\ response_code = None
    /\ lookupLog = <<>> /\ uploadLog = <<>> /\ quotaLog = <<>>

(* ------------------------------------------------------------------ *)
(* get_or_create_folder called twice in a row with the same arguments  *)
(* ------------------------------------------------------------------ *)
PathChars == {"e", "s", "/"}
Paths == UNION {[1..n -> PathChars] : n \in 0..MaxPathLen}

\* folders the LMS may hold before the first call
CandidateFolders ==
    { Folder(1, 1, None, <<"e">>),
      Folder(2, 1, 1, <<"s">>),
      Folder(3, 1, None, <<"e">>),
      Folder(4, 2, None, <<"s">>) }

InitialTrees ==
    {T \in SUBSET CandidateFolders :
        \A f \in T : f.parent # None => \E g \in T : g.id = f.parent}

\* folder_id arguments: none, an id the LMS may hold, an id it never holds
FolderIdArgs == {None, 2, 9}

InitFolder ==
    /\ NoDispatcherRun
    /\ NoClientRun
    /\ NoExtractRun
    /\ folders \in InitialTrees
    /\ f_base = folders
    /\ f_user \in UserIds \cup {None}
    /\ f_path \in Paths
    /\ f_arg \in FolderIdArgs
    /\ f_phase = 1
    /\ f_rets = <<>>

\* one call; f_rets keeps what it returned and what it did
CallFolder ==
    /\ f_phase \in {1, 2}
    /\ \E failAt \in 0..FolderCalls(f_path) :
         LET r == get_or_create_folder(folders, f_user, f_path, f_arg, failAt) IN
         /\ folders' = r.tree
         /\ f_rets' = Append(f_rets,
                [ret |-> r.ret, calls |-> r.calls, failed |-> failAt \in 1..r.calls,
                 before |-> folders, after |-> r.tree])
    /\ f_phase' = f_phase + 1
    /\ UNCHANGED <<dispatcherVars, clientVars, extractVars, f_user, f_path, f_arg, f_base>>

NextFolder == CallFolder

SpecFolder == InitFolder /\ [][NextFolder]_vars

(* ------------------------------------------------------------------ *)
(* The client's request methods called directly, on any reply          *)
(* ------------------------------------------------------------------ *)
ClientCodes == {199, 200, 299, 300, 404, 507}

InitClient ==
    /\ NoDispatcherRun
    /\ NoClientRun
    /\ NoFolderRun
    /\ NoExtractRun
    /\ folders = {}

NoReply == Reply(FALSE, None, "none", None)

CallGetUserId ==
    /\ \E reply \in LookupRepliesFor({c \in ClientCodes : Is2xx(c)},
                                      {c \in ClientCodes : ~Is2xx(c)}) :
         lastLookup' = <<[reply |-> reply, ret |-> get_user_id(reply)]>>
    /\ UNCHANGED <<dispatcherVars, folders, folderVars, extractVars, lastUpload, lastQuota>>

CallUploadFile ==
    /\ \E exists \in BOOLEAN, p1 \in TicketRepliesFor(ClientCodes),
          p2 \in TransferRepliesFor(ClientCodes) :
         LET r == upload_file(exists, p1, p2) IN
         lastUpload' = <<[exists |-> exists,
                          ticket |-> IF r.calls = <<>> THEN NoReply ELSE p1,
                          transfer |-> IF Len(r.calls) = 2 THEN p2 ELSE NoReply,
                          value |-> r.value, calls |-> r.calls]>>
    /\ UNCHANGED <<dispatcherVars, folders, folderVars, extractVars, lastLookup, lastQuota>>

CallGetRemainingSpace ==
    /\ \E q \in QuotaReplies :
         lastQuota' = <<[reply |-> q, ret |-> get_remaining_space(q)]>>
    /\ UNCHANGED <<dispatcherVars, folders, folderVars, extractVars, lastLookup, lastUpload>>

NextClient ==
    \/ CallGetUserId
    \/ CallUploadFile
    \/ CallGetRemainingSpace

SpecClient == InitClient /\ [][NextClient]_vars

(* ------------------------------------------------------------------ *)
(* The username extractor called on any directory                      *)
(* ------------------------------------------------------------------ *)
NameChars == {"b", "_", ".", "-", "("}
Names == UNION {[1..n -> NameChars] : n \in 1..MaxNameLen}

\* regular files the directory may hold beside the entry that is drawn freely
Companions ==
    { <<"r","_","b",".","p","d","f">>,
      <<"s","_","b",".","p","d","f">>,
      <<"n","o","t","e","s",".","t","x","t">> }

InitExtract ==
    /\ NoDispatcherRun
    /\ NoClientRun
    /\ NoFolderRun
    /\ folders = {}
    /\ \E name \in Names \ Companions, isfile \in BOOLEAN, S \in SUBSET Companions :
         x_entries = {Entry(name, isfile)} \cup {Entry(c, TRUE) : c \in S}
    /\ x_usernames = <<>>
    /\ x_phase = "listed"

\* line 62: list(usernames_set), in the arbitrary order of the set
ExtractStep ==
    /\ x_phase = "listed"
    /\ x_usernames' \in Perms(extract_unique_usernames_from_files(x_entries))
    /\ x_phase' = "returned"
    /\ UNCHANGED <<dispatcherVars, folders, clientVars, folderVars, x_entries>>

NextExtract == ExtractStep

SpecExtract == InitExtract /\ [][NextExtract]_vars

(* ================================================================== *)
(* Properties                                                          *)
(* ================================================================== *)
\* the dispatcher is done with the k-th upload_file call of the run
Handled(k) == k < Len(uploadLog) \/ pc # "check"

Quarantined(user_name, file) ==
    file \notin staging /\ <<user_name, file>> \in exceeded

(* C1: whenever upload_file returns None for a file, the dispatcher handles
   it like a non-2xx result: it queries the quota and moves the file to
   <exceeded_dir>/file_storage_exceeded_<recipient>/, so the file is gone
   from the staging directory. *)
C1_AbsentUploadQuarantined ==
    \A k \in DOMAIN uploadLog :
        (uploadLog[k].code = None /\ Handled(k)) =>
            /\ Quarantined(uploadLog[k].user_name, uploadLog[k].file)
            /\ \E q \in DOMAIN quotaLog :
                  /\ quotaLog[q].user_name = uploadLog[k].user_name
                  /\ quotaLog[q].file = uploadLog[k].file

(* C2: no per-recipient or per-file failure aborts the run: when the
   dispatcher returns, the user lookup of every recipient of the list has
   been attempted. *)
C2_EveryRecipientLookedUp ==
    pc = "done" => Len(lookupLog) = Len(usernames)

(* C3: a recipient whose user lookup returns absent is skipped: no upload
   call is made and no file is moved for it, no folder is created for it,
   and the step after the lookup leaves the staging directory, the exceeded
   area, the folder tree and the upload log as they are and goes on to the
   next recipient without the run being aborted. *)
AbsentLookup(k) == lookupLog[k].ret.kind = "none"

C3_NothingDoneForAbsentUser ==
    /\ \A k \in DOMAIN lookupLog :
         AbsentLookup(k) =>
            /\ \A j \in DOMAIN uploadLog :
                  uploadLog[j].user_name # lookupLog[k].user_name
            /\ \A e \in exceeded : e[1] # lookupLog[k].user_name
    /\ \A f \in folders : f.owner # None

C4_FailedUploadQuarantinedOnce ==
    \A k \in DOMAIN uploadLog :
        (uploadLog[k].code # None /\ ~Is2xx(uploadLog[k].code) /\ Handled(k)) =>
            /\ Quarantined(uploadLog[k].user_name, uploadLog[k].file)
            /\ \A j \in DOMAIN uploadLog :
                  j > k => uploadLog[j].file # uploadLog[k].file

(* C5: the quota query after a failed upload is diagnostic only: whatever
   its outcome, the failed file is relocated to the recipient's
   exceeded-storage directory. *)
C5_QuotaOutcomeIrrelevant ==
    \A q \in DOMAIN quotaLog :
        Quarantined(quotaLog[q].user_name, quotaLog[q].file)

(* C6: every staged file is the subject of at most one upload attempt in a
   run: a file that reached UPLOADED or QUARANTINED is not uploaded again. *)
C6_AtMostOneUploadPerFile ==
    \A j, k \in DOMAIN uploadLog :
        uploadLog[j].file = uploadLog[k].file => j = k

(* C7: get_or_create_folder without folder_id is idempotent: two calls in a
   row with the same path and user, neither failing, return the same
   terminal folder id, the second call creates no folder, and no folder
   these calls create has a sibling of the same name. *)
Siblings(f, g) ==
    f # g /\ f.owner = g.owner /\ f.parent = g.parent /\ f.name = g.name

C7_ResolveFolderIdempotent ==
    (f_phase = 3 /\ f_arg = None) =>
        /\ (f_rets[1].ret.kind = "id" /\ f_rets[2].ret.kind = "id") =>
              /\ f_rets[2].ret = f_rets[1].ret
              /\ f_rets[2].after = f_rets[2].before
        /\ \A c \in folders \ f_base : \A g \in folders : ~Siblings(c, g)

\* the first call created both folders of a two-segment path, the second found them
C7_Witness ==
    /\ f_phase = 3 /\ f_arg = None
    /\ Len(Split(f_path)) = 2
    /\ f_rets[1].ret.kind = "id" /\ f_rets[2].ret.kind = "id"
    /\ Cardinality(f_rets[1].after \ f_rets[1].before) = 2

(* C8, as stated: get_or_create_folder called with a folder id returns that
   same id directly, without validating it and without any LMS call. *)
C8_ReturnsSuppliedId ==
    \A k \in DOMAIN f_rets :
        f_arg # None => (f_rets[k].ret = Ret("id", f_arg) /\ f_rets[k].calls = 0)

(* C8, amended: get_or_create_folder called with a folder id makes exactly
   one LMS request, which retrieves that folder, and lists and creates
   nothing; it returns the retrieved folder object when the LMS holds a
   folder with that id and the request succeeds, and absent otherwise. *)
C8_ReturnsRetrievedFolder ==
    \A k \in DOMAIN f_rets :
        f_arg # None =>
            /\ f_rets[k].calls = 1
            /\ f_rets[k].after = f_rets[k].before
            /\ f_rets[k].ret =
                  IF ~f_rets[k].failed /\ (\E f \in f_rets[k].before : f.id = f_arg)
                  THEN Ret("folder", f_arg)
                  ELSE Ret("none", None)

\* a held id gave the folder object, then (the request failing) gave absent
C8_Witness ==
    /\ f_phase = 3 /\ f_arg # None
    /\ f_rets[1].ret = Ret("folder", f_arg)
    /\ f_rets[2].ret = Ret("none", None)

(* C9: get_user_id never raises: for every reply it returns the id of the
   first element of the returned list or absent, and absent on an empty
   result, a 404, another non-2xx status, a transport failure, an
   unparseable body and a body of unexpected shape. *)
C9_LookupNeverRaises ==
    lastLookup # <<>> =>
        LET reply == lastLookup[1].reply
            ret == lastLookup[1].ret
        IN  /\ ret.kind # "raise"
            /\ ret = IF ~reply.transport /\ Is2xx(reply.status) /\ reply.body = "list_id"
                     THEN Ret("value", reply.id)
                     ELSE Ret("none", None)

(* C10: upload_file is two-phase and ordered: the transfer is attempted only
   after the ticket request returned a 2xx status; when the ticket request
   returns a non-2xx status the transfer is not attempted and that status is
   returned; when the transfer returns a status, that status is returned. *)
C10_TwoPhaseOrdered ==
    lastUpload # <<>> =>
        LET u == lastUpload[1]
            ticketStatus == u.calls # <<>> /\ ~u.ticket.transport
            transferred == Len(u.calls) = 2
        IN  /\ u.calls \in {<<>>, <<"ticket">>, <<"ticket", "transfer">>}
            /\ transferred => (ticketStatus /\ Is2xx(u.ticket.status))
            /\ (ticketStatus /\ ~Is2xx(u.ticket.status)) =>
                  (~transferred /\ u.value = u.ticket.status)
            /\ (transferred /\ ~u.transfer.transport) => u.value = u.transfer.status

\* a 507 ticket reply ended the upload, and 507 came back
C10_Witness ==
    /\ lastUpload # <<>>
    /\ lastUpload[1].exists
    /\ lastUpload[1].ticket.status = 507
    /\ lastUpload[1].calls = <<"ticket">>
    /\ lastUpload[1].value = 507

(* C11: the extractor returns exactly the identifiers <id> of the regular
   files (not the subdirectories) whose name is <anything>_<id>.<ext>, with
   <id> made of alphanumerics, hyphens and parentheses and <ext> a word:
   each identifier once, however many files share it, and no token of a
   name that does not have this shape. *)
NonEmptyOver(s, set) == s # <<>> /\ \A k \in DOMAIN s : s[k] \in set

\* name is <anything>_<id>.<ext>, cut after the first u - 1 and the first d - 1 characters
ShapedAt(name, u, d) ==
    /\ name = SubSeq(name, 1, u - 1) \o <<"_">> \o SubSeq(name, u + 1, d - 1)
                \o <<".">> \o SubSeq(name, d + 1, Len(name))
    /\ NonEmptyOver(SubSeq(name, u + 1, d - 1), IdChars)
    /\ NonEmptyOver(SubSeq(name, d + 1, Len(name)), WordChars)

ShapedIdentifiers(name) ==
    {SubSeq(name, c[1] + 1, c[2] - 1) :
        c \in {b \in (1..Len(name)) \X (1..Len(name)) :
                 b[1] < b[2] /\ ShapedAt(name, b[1], b[2])}}

C11_ExtractorExact ==
    x_phase = "returned" =>
        /\ {x_usernames[k] : k \in DOMAIN x_usernames}
             = UNION {ShapedIdentifiers(e.name) : e \in {x \in x_entries : x.isfile}}
        /\ \A j, k \in DOMAIN x_usernames : x_usernames[j] = x_usernames[k] => j = k

\* two files share an identifier, returned once; a subdirectory of the same
\* shape contributes nothing
C11_Witness ==
    /\ x_phase = "returned"
    /\ \E e, f \in x_entries :
         /\ e # f /\ e.isfile /\ f.isfile
         /\ ShapedIdentifiers(e.name) # {}
         /\ ShapedIdentifiers(e.name) = ShapedIdentifiers(f.name)
    /\ \E g \in x_entries :
         /\ ~g.isfile
         /\ ShapedIdentifiers(g.name) # {}
         /\ \A k \in DOMAIN x_usernames : x_usernames[k] \notin ShapedIdentifiers(g.name)
    /\ Len(x_usernames) = 1

(* C12: no cross-recipient delivery: a file is uploaded to, or quarantined
   under, recipient R only if R is the identifier the extractor derives from
   the file's own name (a file of 'xbob' never goes to 'bob'), and the file
   enumeration for an identifier that holds parentheses does not raise. *)
OwnIdentifier(user_name, file) ==
    MatchesPattern(file) /\ SearchUsername(file) = user_name

\* the run was ended by re.error from the enumeration of line 104
EnumerationRaised ==
    /\ outcome = "caught"
    /\ Len(lookupLog) = idx
    /\ lookupLog[idx].ret.kind = "value"
    /\ ~PatternCompiles(usernames[idx])

C12_NoCrossRecipientDelivery ==
    /\ \A k \in DOMAIN uploadLog :
         OwnIdentifier(uploadLog[k].user_name, uploadLog[k].file)
    /\ \A e \in exceeded : OwnIdentifier(e[1], e[2])
    /\ ~EnumerationRaised

(* C13: file conservation: starting from an empty exceeded-storage area,
   every file staged at the start is at exactly one place, its staging path
   or <exceeded_dir>/file_storage_exceeded_<id>/<same basename>; it is at
   the quarantine path only if an upload attempt for it returned a failure,
   and a file whose upload returned 2xx stays at its staging path. *)
QuarantinePaths(file) == {e \in exceeded : e[2] = file}

C13_FileConservation ==
    /\ \A f \in staged0 :
         \/ f \in staging /\ QuarantinePaths(f) = {}
         \/ f \notin staging /\ Cardinality(QuarantinePaths(f)) = 1
    /\ \A e \in exceeded :
         \E k \in DOMAIN uploadLog :
            /\ uploadLog[k].user_name = e[1]
            /\ uploadLog[k].file = e[2]
            /\ uploadLog[k].code # None
            /\ ~Is2xx(uploadLog[k].code)
    /\ \A k \in DOMAIN uploadLog :
         (uploadLog[k].code # None /\ Is2xx(uploadLog[k].code)) =>
            uploadLog[k].file \in staging
====
